---- MODULE Spec2Model ----
(***************************************************************************)
(* NOVAPipeline (diffnext/pipelines/pipeline_nova.py): the orchestration   *)
(* of one text-to-image / text-to-video generation call, its helpers       *)
(* encode_prompt, prepare_latents, encode_image and register_module, and   *)
(* the pipeline instance's fields they read and write.                     *)
(*                                                                         *)
(* Python values are tagged records: None, a str, a list.  Tensors are     *)
(* sequences of rows (dim 0); the numeric content of a row is not          *)
(* modelled, only which prompt or image it was computed from.              *)
(***************************************************************************)
EXTENDS Integers, Sequences, FiniteSets, TLC

(* ------------------------------ bounds --------------------------------- *)

MaxPrompts == 2          \* longest positive prompt list
MaxNegatives == 3        \* longest negative prompt list
MaxImagesPerPrompt == 2  \* largest num_images_per_prompt
MaxSteps == 3            \* largest num_inference_steps
MaxPatches == 3          \* largest prod(transformer.config.image_base_size)
MaxRegistrations == 2    \* register_module calls made after construction
MaxScheduleSteps == 9    \* largest num_inference_steps of a schedule on its own
MaxSchedulePatches == 24 \* largest patch count of a schedule on its own

(* --------------------------- Python values ----------------------------- *)

None == [kind |-> "none"]
Str(s) == [kind |-> "str", val |-> s]
List(q) == [kind |-> "list", val |-> q]

IsStr(v) == v.kind = "str"

\* Python truthiness of None, a str or a list.
Truthy(v) ==
  CASE v.kind = "none" -> FALSE
    [] v.kind = "str" -> v.val # ""
    [] v.kind = "list" -> v.val # <<>>

\* Python's `a or b`.
Or(a, b) == IF Truthy(a) THEN a ELSE b

PromptTexts == <<"a cat", "a dog", "a bird", "a fish">>
NegativeTexts == <<"blurry", "dark", "noisy", "grainy", "flat">>

PromptInputs ==
  {Str("a red ball")} \cup {List(SubSeq(PromptTexts, 1, n)) : n \in 0..MaxPrompts}
NegativeInputs ==
  {None, Str(""), Str("blurry")}
    \cup {List(SubSeq(NegativeTexts, 1, n)) : n \in 0..MaxNegatives}
\* The negative prompts of the calls that interleave: None or a str.
ScalarNegativeInputs == {None, Str("blurry")}
GuidanceScales == {0, 1, 2, 5}
ImagesPerPrompt == 1..MaxImagesPerPrompt
MotionFlows == {5, 7}
ImageInputs == {None, Str("seed.png")}
OutputTypes == {"pil", "np", "latent", "pt"}
Ranks == {3, 4, 5}
InferenceSteps == 1..MaxSteps
PatchCounts == 0..MaxPatches

(* --------------------------- mask schedule ----------------------------- *)

\* Fixed-point resolution of the cosine: a ratio r is the integer r * Scale.
Scale == 40000
\* np.pi in that resolution.
PiScaled == 125664

\* cos(x / Scale) * Scale for 0 <= x / Scale <= pi / 4 (Taylor, Horner form).
CosTaylor(x) ==
  LET x2 == (x * x) \div Scale
      a4 == Scale - x2 \div 56
      a3 == Scale - (x2 * a4) \div (30 * Scale)
      a2 == Scale - (x2 * a3) \div (12 * Scale)
  IN  Scale - (x2 * a2) \div (2 * Scale)

\* sin(x / Scale) * Scale for 0 <= x / Scale <= pi / 4.
SinTaylor(x) ==
  LET x2 == (x * x) \div Scale
      a4 == Scale - x2 \div 72
      a3 == Scale - (x2 * a4) \div (42 * Scale)
      a2 == Scale - (x2 * a3) \div (20 * Scale)
      a1 == Scale - (x2 * a2) \div (6 * Scale)
  IN  (x * a1) \div Scale

\* mask_ratios[i] = np.cos(0.5 * np.pi * i / S), times Scale.
MaskRatio(i, S) ==
  IF 2 * i <= S
    THEN CosTaylor((PiScaled * i) \div (2 * S))
    ELSE SinTaylor((PiScaled * (S - i)) \div (2 * S))

\* mask_ratios[i] * P is exactly half way between two integers: the ratio is
\* exactly 1/2 (i / S = 2 / 3) and P is odd.
IsTie(i, S, P) == 3 * i = 2 * S /\ P % 2 = 1

\* mask_length[i] = np.round(mask_ratios[i] * P).astype("int64").  At a tie
\* the float cosine is 1/2 give or take an ulp, and the rounding goes up or
\* down with it: tieUp is the outcome of the build.
MaskLength(i, S, P, tieUp) ==
  IF IsTie(i, S, P)
    THEN (IF tieUp THEN (P + 1) \div 2 ELSE (P - 1) \div 2)
    ELSE (2 * MaskRatio(i, S) * P + Scale) \div (2 * Scale)

\* Variant with a fault: the ratios taken over arange(S) instead of
\* arange(S + 1).
MaskLengthsShort(S, P, tieUp) == [i \in 1..S |-> MaskLength(i - 1, S, P, tieUp)]

\* mask_length, the S + 1 entries for the steps 0..S (at positions 1..S + 1).
MaskLengths(S, P, tieUp) == [i \in 1..(S + 1) |-> MaskLength(i - 1, S, P, tieUp)]

\* mask_length[:-1] - mask_length[1:]
Differences(mask_length) ==
  [i \in 1..(Len(mask_length) - 1) |-> mask_length[i] - mask_length[i + 1]]

\* inputs["num_preds"]
NumPreds(S, P, tieUp) == Differences(MaskLengths(S, P, tieUp))

\* The outcomes the rounding of a call's schedule can have.
TieOutcomes(S, P) ==
  IF \E i \in 0..S : IsTie(i, S, P) THEN BOOLEAN ELSE {TRUE}

(* --------------------------- prompt encoding --------------------------- *)

\* select_or_pad(a, b, n)
SelectOrPad(a, b, n) ==
  IF IsStr(Or(a, b)) THEN List([i \in 1..n |-> Or(a, b).val]) ELSE Or(a, b)

\* prompt = [prompt] if isinstance(prompt, str) else prompt
PromptList(prompt) == IF IsStr(prompt) THEN <<prompt.val>> ELSE prompt.val

\* negative_prompt = select_or_pad(negative_prompt, "", len(prompt))
NegativeList(prompt, negative_prompt) ==
  SelectOrPad(negative_prompt, Str(""), Len(PromptList(prompt))).val

\* Variant with a fault: the negative prompts appended from guidance_scale = 1 on.
AppendsNegativeFromOne(field) == field >= 1

\* The test of encode_prompt on the pipeline's field: self.guidance_scale > 1.
AppendsNegative(field) == field > 1

\* prompts = prompt + (negative_prompt if self.guidance_scale > 1 else [])
PromptBatch(field, prompt, negative_prompt) ==
  PromptList(prompt)
    \o (IF AppendsNegative(field) THEN NegativeList(prompt, negative_prompt) ELSE <<>>)

\* transformer.text_embed.encode_prompts: one embedding row per prompt.
EncodePrompts(prompts) == [i \in 1..Len(prompts) |-> [text |-> prompts[i], at |-> i]]

\* c.repeat_interleave(k, dim=0)
RepeatInterleave(c, k) ==
  [i \in 1..(Len(c) * k) |-> c[((i - 1) \div k) + 1]]

\* encode_prompt, reading the pipeline's guidance_scale field.
EncodePrompt(field, prompt, num_images_per_prompt, negative_prompt) ==
  RepeatInterleave(EncodePrompts(PromptBatch(field, prompt, negative_prompt)),
                   num_images_per_prompt)

(* ------------------------------ latents -------------------------------- *)

\* encode_image: the seed image normalised, encoded by the VAE, scaled, and
\* expanded to num_images_per_prompt rows.
EncodeImage(image, num_images_per_prompt) ==
  [i \in 1..num_images_per_prompt |-> [image |-> image.val, scaled |-> TRUE]]

\* prepare_latents
PrepareLatents(image, num_images_per_prompt) ==
  IF image # None THEN <<EncodeImage(image, num_images_per_prompt)>> ELSE <<>>

(* --------------------------- collaborators ----------------------------- *)

ModuleNames == {"vae", "text_encoder", "tokenizer", "transformer", "scheduler"}

\* An already-instantiated collaborator of the class the pipeline expects for
\* the name, and one of a class of the caller's own.
Given(name) == [kind |-> "object", origin |-> "given", cls |-> name]
Custom(name) == [kind |-> "object", origin |-> "given", cls |-> "Custom"]

\* cls.from_pretrained(path, torch_dtype=self.dtype), then .to(self.device)
LoadPretrained(cls, path) ==
  [kind |-> "object", origin |-> "pretrained", cls |-> cls, path |-> path,
   placed |-> "device,dtype"]

\* cls()
DefaultConstruct(cls) == [kind |-> "object", origin |-> "default", cls |-> cls]

\* The class register_module finds for a name in __init__'s annotations, when
\* the running class's __init__ carries any; NOVAPipeline.__init__ carries none.
AnnotatedClass(name) == name

\* register_module for a string: the model it is left with after the
\* from_pretrained branch (taken for a non-empty path and a class that has
\* from_pretrained) and the assignment `model = cls()` that follows the branch.
ResolveString(path, cls, pretrainable) ==
  LET loaded == IF pretrainable /\ path # ""
                  THEN LoadPretrained(cls, path)
                  ELSE Str(path)
      model == DefaultConstruct(cls)
  IN  [model |-> model, loaded |-> loaded]

\* register_module: what it returns, what it records, whether it raised.
RegisterModule(config, model_or_path, name, annotated, pretrainable) ==
  IF ~IsStr(model_or_path)
    THEN [raised |-> FALSE, model |-> model_or_path, loaded |-> None,
          config |-> [config EXCEPT ![name] = model_or_path.cls]]
    ELSE IF ~annotated
      THEN [raised |-> TRUE, model |-> None, loaded |-> None, config |-> config]
      ELSE LET r == ResolveString(model_or_path.val, AnnotatedClass(name), pretrainable)
           IN  [raised |-> FALSE, model |-> r.model, loaded |-> r.loaded,
                config |-> [config EXCEPT ![name] = r.model.cls]]

(* ------------------------------- state --------------------------------- *)

VARIABLES
  pipeline,  \* the fields of the one NOVAPipeline instance
  pc,        \* the sequential caller: "idle", "returned" or "raised"
  call,      \* the call the sequential caller made last, with what it computed
  frames,    \* per thread, the frame of its __call__ (concurrent callers)
  writer,    \* the thread whose __call__ assigned guidance_scale last (0: none)
  registrations  \* register_module calls made since construction

vars == <<pipeline, pc, call, frames, writer, registrations>>

Threads == {1, 2}

NoCall == [op |-> "none"]
IdleFrame == [at |-> "idle"]

\* The pipeline after __init__ with five instantiated collaborators; the
\* transformer declares num_patches = prod(config.image_base_size).
InitWith(patch_counts) ==
  /\ \E P \in patch_counts :
       pipeline = [vae |-> Given("vae"),
                   text_encoder |-> Given("text_encoder"),
                   tokenizer |-> Given("tokenizer"),
                   transformer |-> [kind |-> "object", origin |-> "given",
                                    cls |-> "transformer",
                                    num_patches |-> P],
                   scheduler |-> Given("scheduler"),
                   guidance_scale |-> 5,
                   tokenizer_max_length |-> 256,
                   config |-> [n \in ModuleNames |-> n]]
  /\ pc = "idle"
  /\ call = NoCall
  /\ frames = [t \in Threads |-> IdleFrame]
  /\ writer = 0
  /\ registrations = 0

Init == InitWith(PatchCounts)

(* ------------------------------ __call__ ------------------------------- *)

\* Variant with a fault: the assignment to the field left out.
KeepGuidanceScale(p, guidance_scale) == p

\* Variant with a fault: the call also overwrites tokenizer_max_length.
SetGuidanceScaleAndLength(p, guidance_scale) ==
  [p EXCEPT !.guidance_scale = guidance_scale, !.tokenizer_max_length = 0]

\* self.guidance_scale = guidance_scale
SetGuidanceScale(p, guidance_scale) == [p EXCEPT !.guidance_scale = guidance_scale]

\* Variant with a fault: the divisor is 2 from guidance_scale = 1 on.
BatchDivisorFromOne(guidance_scale) == IF guidance_scale >= 1 THEN 2 ELSE 1

\* 2 if guidance_scale > 1 else 1, on the call's own argument
BatchDivisor(guidance_scale) == IF guidance_scale > 1 THEN 2 ELSE 1

\* inputs["batch_size"] = len(inputs["prompt"]) // (2 if guidance_scale > 1 else 1)
BatchSize(prompt_embeds, guidance_scale) ==
  Len(prompt_embeds) \div BatchDivisor(guidance_scale)

\* inputs["motion_flow"] = [motion_flow] * inputs["batch_size"]
MotionFlowList(motion_flow, batch_size) == [i \in 1..batch_size |-> motion_flow]

\* Variant with a fault: the two ranks exchanged.
OutputNameSwapped(rank) == IF rank = 4 THEN "frames" ELSE "images"

\* {4: "images", 5: "frames"}[len(outputs["x"].shape)]
OutputName(rank) == IF rank = 4 THEN "images" ELSE "frames"

\* The tail of __call__ for a post-processed tensor of the given rank:
\* what is returned, whether the tensor went through .cpu().numpy(), and
\* whether PIL images were made of it.
Output(output_type, rank) ==
  IF output_type \in {"latent", "pt"}
    THEN [kind |-> "tensor", fields |-> {}, host |-> FALSE, pil |-> FALSE]
    ELSE IF rank \notin {4, 5}
      THEN [kind |-> "KeyError", fields |-> {}, host |-> TRUE, pil |-> FALSE]
      ELSE [kind |-> "NOVAPipelineOutput", fields |-> {OutputName(rank)}, host |-> TRUE,
            pil |-> (output_type = "pil" /\ OutputName(rank) = "images")]

\* __call__ run to its end by the sequential caller.  rank is the rank of the
\* tensor the transformer and its postprocess leave in outputs["x"].
Generate ==
  /\ pc = "idle"
  /\ \E prompt \in PromptInputs, negative_prompt \in NegativeInputs,
        guidance_scale \in GuidanceScales, num_images_per_prompt \in ImagesPerPrompt,
        num_inference_steps \in InferenceSteps, motion_flow \in MotionFlows,
        image \in ImageInputs, output_type \in OutputTypes, rank \in Ranks :
       \E tieUp \in TieOutcomes(num_inference_steps, pipeline.transformer.num_patches) :
         LET self == SetGuidanceScale(pipeline, guidance_scale)
             num_patches == self.transformer.num_patches
             num_preds == NumPreds(num_inference_steps, num_patches, tieUp)
             prompts == PromptBatch(self.guidance_scale, prompt, negative_prompt)
             prompt_embeds == EncodePrompt(self.guidance_scale, prompt,
                                           num_images_per_prompt, negative_prompt)
             latents == PrepareLatents(image, num_images_per_prompt)
             batch_size == BatchSize(prompt_embeds, guidance_scale)
             result == Output(output_type, rank)
         IN  /\ pipeline' = self
             /\ call' = [op |-> "generate",
                         entry_field |-> pipeline.guidance_scale,
                         prompt |-> prompt,
                         negative_prompt |-> negative_prompt,
                         guidance_scale |-> guidance_scale,
                         num_images_per_prompt |-> num_images_per_prompt,
                         num_inference_steps |-> num_inference_steps,
                         motion_flow |-> motion_flow,
                         output_type |-> output_type,
                         rank |-> rank,
                         num_patches |-> num_patches,
                         num_preds |-> num_preds,
                         encoded |-> prompts,
                         prompt_embeds |-> prompt_embeds,
                         latents |-> latents,
                         divisor |-> BatchDivisor(guidance_scale),
                         batch_size |-> batch_size,
                         motion_flow_list |-> MotionFlowList(motion_flow, batch_size),
                         result |-> result]
             /\ pc' = IF result.kind = "KeyError" THEN "raised" ELSE "returned"
  /\ UNCHANGED <<frames, writer, registrations>>

(* ------------------------- the helpers, called directly ---------------- *)

CallEncodePrompt ==
  /\ pc = "idle"
  /\ \E prompt \in PromptInputs, negative_prompt \in NegativeInputs,
        num_images_per_prompt \in ImagesPerPrompt :
       call' = [op |-> "encode_prompt",
                field |-> pipeline.guidance_scale,
                prompt |-> prompt,
                negative_prompt |-> negative_prompt,
                num_images_per_prompt |-> num_images_per_prompt,
                encoded |-> PromptBatch(pipeline.guidance_scale, prompt, negative_prompt),
                prompt_embeds |-> EncodePrompt(pipeline.guidance_scale, prompt,
                                               num_images_per_prompt, negative_prompt)]
  /\ pc' = "returned"
  /\ UNCHANGED <<pipeline, frames, writer, registrations>>

CallPrepareLatents ==
  /\ pc = "idle"
  /\ \E image \in ImageInputs, num_images_per_prompt \in ImagesPerPrompt :
       call' = [op |-> "prepare_latents", image |-> image,
                num_images_per_prompt |-> num_images_per_prompt,
                latents |-> PrepareLatents(image, num_images_per_prompt)]
  /\ pc' = "returned"
  /\ UNCHANGED <<pipeline, frames, writer, registrations>>

CallEncodeImage ==
  /\ pc = "idle"
  /\ \E image \in ImageInputs \ {None}, num_images_per_prompt \in ImagesPerPrompt :
       call' = [op |-> "encode_image", image |-> image,
                num_images_per_prompt |-> num_images_per_prompt,
                latent |-> EncodeImage(image, num_images_per_prompt)]
  /\ pc' = "returned"
  /\ UNCHANGED <<pipeline, frames, writer, registrations>>

ModelInputs(name) == {Given(name), Custom(name), Str(""), Str("BAAI/nova")}

CallRegisterModule ==
  /\ pc = "idle"
  /\ registrations < MaxRegistrations
  /\ \E name \in ModuleNames, annotated \in BOOLEAN, pretrainable \in BOOLEAN :
       \E model_or_path \in ModelInputs(name) :
         LET r == RegisterModule(pipeline.config, model_or_path, name,
                                 annotated, pretrainable)
         IN  /\ call' = [op |-> "register_module", name |-> name,
                         model_or_path |-> model_or_path,
                         pretrainable |-> pretrainable,
                         raised |-> r.raised, model |-> r.model, loaded |-> r.loaded]
             /\ pipeline' = [pipeline EXCEPT !.config = r.config]
             /\ pc' = IF r.raised THEN "raised" ELSE "returned"
  /\ registrations' = registrations + 1
  /\ UNCHANGED <<frames, writer>>

\* The caller takes the result (or the exception) and the frame is gone.
Return ==
  /\ pc \in {"returned", "raised"}
  /\ pc' = "idle"
  /\ call' = NoCall
  /\ UNCHANGED <<pipeline, frames, writer, registrations>>

\* One caller at a time: generation calls and direct calls of its helpers.
Next ==
  \/ Generate
  \/ CallEncodePrompt
  \/ CallPrepareLatents
  \/ CallEncodeImage
  \/ Return

Spec == Init /\ [][Next]_vars

\* One caller at a time, resolving collaborators through register_module.
NextRegister ==
  \/ CallRegisterModule
  \/ Return

SpecRegister == Init /\ [][NextRegister]_vars

(* ---------------------- the mask schedule on its own ------------------- *)

\* Lines 112-116 of __call__ for one num_inference_steps, on the pipeline's
\* transformer: the mask lengths and the reveal counts they give.
Schedule ==
  /\ pc = "idle"
  /\ \E num_inference_steps \in 1..MaxScheduleSteps :
       \E tieUp \in TieOutcomes(num_inference_steps, pipeline.transformer.num_patches) :
         LET num_patches == pipeline.transformer.num_patches
         IN  call' = [op |-> "schedule",
                      num_inference_steps |-> num_inference_steps,
                      num_patches |-> num_patches,
                      mask_length |-> MaskLengths(num_inference_steps, num_patches, tieUp),
                      num_preds |-> NumPreds(num_inference_steps, num_patches, tieUp)]
  /\ pc' = "returned"
  /\ UNCHANGED <<pipeline, frames, writer, registrations>>

NextSchedule ==
  \/ Schedule
  \/ Return

\* Pipelines over transformers of every patch count up to MaxSchedulePatches.
InitSchedule == InitWith(0..MaxSchedulePatches)

SpecSchedule == InitSchedule /\ [][NextSchedule]_vars

(* ------------------- __call__ from two threads at once ----------------- *)

\* Thread t enters __call__ and assigns the field (line 111).  The calls that
\* interleave pass a None or str negative prompt and leave num_inference_steps,
\* motion_flow, image and output_type at their defaults; the locals of lines
\* 112-117 touch no field and are not kept.
Enter(t) ==
  /\ frames[t].at = "idle"
  /\ \E prompt \in PromptInputs, negative_prompt \in ScalarNegativeInputs,
        guidance_scale \in GuidanceScales, num_images_per_prompt \in ImagesPerPrompt :
       frames' = [frames EXCEPT ![t] =
                    [at |-> "entered",
                     prompt |-> prompt,
                     negative_prompt |-> negative_prompt,
                     guidance_scale |-> guidance_scale,
                     num_images_per_prompt |-> num_images_per_prompt]]
          /\ pipeline' = SetGuidanceScale(pipeline, guidance_scale)
  /\ writer' = t
  /\ UNCHANGED <<pc, call, registrations>>

\* Thread t runs lines 118-121: encode_prompt reads the field as it is now
\* (line 173); batch_size is computed from the call's own argument.
Encode(t) ==
  /\ frames[t].at = "entered"
  /\ LET f == frames[t]
         prompt_embeds == EncodePrompt(pipeline.guidance_scale, f.prompt,
                                       f.num_images_per_prompt, f.negative_prompt)
     IN  frames' = [frames EXCEPT ![t] =
                      [at |-> "encoded",
                       prompt |-> f.prompt,
                       negative_prompt |-> f.negative_prompt,
                       guidance_scale |-> f.guidance_scale,
                       num_images_per_prompt |-> f.num_images_per_prompt,
                       field_read |-> pipeline.guidance_scale,
                       read_from |-> writer,
                       encoded |-> PromptBatch(pipeline.guidance_scale, f.prompt,
                                               f.negative_prompt),
                       prompt_embeds |-> prompt_embeds,
                       divisor |-> BatchDivisor(f.guidance_scale),
                       batch_size |-> BatchSize(prompt_embeds, f.guidance_scale)]]
  /\ UNCHANGED <<pipeline, pc, call, writer, registrations>>

\* Thread t runs the transformer and returns (lines 122-130).
Finish(t) ==
  /\ frames[t].at = "encoded"
  /\ frames' = [frames EXCEPT ![t] = IdleFrame]
  /\ UNCHANGED <<pipeline, pc, call, writer, registrations>>

NextConcurrent ==
  \/ \E t \in Threads : Enter(t)
  \/ \E t \in Threads : Encode(t)
  \/ \E t \in Threads : Finish(t)

\* The pipeline of the largest transformer, called from two threads.
InitConcurrent == Init /\ pipeline.transformer.num_patches = MaxPatches

SpecConcurrent == InitConcurrent /\ [][NextConcurrent]_vars

(* ------------------------------ properties ----------------------------- *)

\* The number of input prompts: a single str counts as one.
PromptCount(prompt) == IF prompt.kind = "str" THEN 1 ELSE Len(prompt.val)

RECURSIVE Sum(_)
Sum(q) == IF q = <<>> THEN 0 ELSE Head(q) + Sum(Tail(q))

IsGenerate == call.op = "generate"

\* C1: for S steps over P patches the reveal counts are exactly S integers,
\* none negative, and they sum to P: the rounded mask length is P at step 0,
\* 0 at step S, and never increases from a step to the next.
C1_RevealCounts ==
  call.op = "schedule" =>
    LET S == call.num_inference_steps
    IN  /\ Len(call.num_preds) = S
        /\ \A i \in 1..Len(call.num_preds) : call.num_preds[i] >= 0
        /\ Sum(call.num_preds) = call.num_patches
        /\ Len(call.mask_length) = S + 1
        /\ call.mask_length[1] = call.num_patches
        /\ call.mask_length[S + 1] = 0
        /\ \A i \in 1..S : call.mask_length[i + 1] <= call.mask_length[i]

\* A schedule of several steps over several patches, one of them a rounding tie.
C1_Witness ==
  /\ call.op = "schedule"
  /\ call.num_inference_steps >= 6
  /\ call.num_patches >= 7
  /\ \E i \in 0..call.num_inference_steps :
       IsTie(i, call.num_inference_steps, call.num_patches)
  /\ Len(call.num_preds) = call.num_inference_steps
  /\ Sum(call.num_preds) = call.num_patches

\* C2: with num_images_per_prompt = 1, a generation call hands the text
\* encoder 2N prompts when guidance_scale > 1 and N prompts otherwise
\* (stated for N >= 1).
C2_EncodedCount ==
  (IsGenerate /\ call.num_images_per_prompt = 1 /\ PromptCount(call.prompt) >= 1) =>
    Len(call.encoded) = (IF call.guidance_scale > 1 THEN 2 ELSE 1) * PromptCount(call.prompt)

\* C3 as stated: guidance is on from guidance_scale = 1: the negative prompts
\* are appended (2N prompts for a None or str negative prompt) and the row
\* count is halved.
C3_GuidanceFromOne ==
  (IsGenerate /\ call.guidance_scale >= 1 /\ call.negative_prompt.kind # "list") =>
    /\ Len(call.encoded) = 2 * PromptCount(call.prompt)
    /\ call.batch_size = Len(call.prompt_embeds) \div 2

\* The negative prompts a call appends when guidance is on: a list is taken as
\* it is, anything else stands for one negative prompt per positive prompt.
NegativeCount(prompt, negative_prompt) ==
  IF negative_prompt.kind = "list" /\ negative_prompt.val # <<>>
    THEN Len(negative_prompt.val)
    ELSE PromptCount(prompt)

\* C3, amended: guidance is on exactly when guidance_scale > 1: only then are
\* the negative prompts appended after the positive prompts and the row count
\* halved; at guidance_scale <= 1 (1 included) the positive prompts alone are
\* encoded and the row count is not halved.
C3_GuidanceAboveOne ==
  IsGenerate =>
    LET n == PromptCount(call.prompt)
    IN  IF call.guidance_scale > 1
          THEN /\ Len(call.encoded) = n + NegativeCount(call.prompt, call.negative_prompt)
               /\ call.batch_size = Len(call.prompt_embeds) \div 2
          ELSE /\ Len(call.encoded) = n
               /\ call.batch_size = Len(call.prompt_embeds)

\* A call at guidance_scale exactly 1 that appended nothing and halved nothing.
C3_Witness ==
  /\ IsGenerate
  /\ call.guidance_scale = 1
  /\ PromptCount(call.prompt) = 2
  /\ Len(call.encoded) = 2
  /\ call.batch_size = Len(call.prompt_embeds)
  /\ call.batch_size > 0

\* C4: encode_prompt returns M * K rows for the M prompts it encodes, row i
\* being the embedding of prompt floor(i / K); the positive rows come first
\* and, with guidance on, are the first half of the rows (stated for at least
\* one positive prompt).
C4_PromptMajorRows ==
  (call.op = "encode_prompt" /\ PromptCount(call.prompt) >= 1) =>
    LET k == call.num_images_per_prompt
        m == Len(call.encoded)
        n == PromptCount(call.prompt)
        rows == call.prompt_embeds
    IN  /\ Len(rows) = m * k
        /\ \A i \in 0..(Len(rows) - 1) :
             /\ rows[i + 1].at = (i \div k) + 1
             /\ rows[i + 1].text = call.encoded[(i \div k) + 1]
        /\ \A i \in 0..(n * k - 1) : rows[i + 1].at <= n
        /\ call.field > 1 => 2 * n * k = Len(rows)

\* C5: with guidance on, encode_prompt appends exactly as many negative
\* prompts as there are positive prompts, whatever the form of
\* negative_prompt, and the empty string when it is None (stated for at least
\* one positive prompt).
C5_NegativesMatchPositives ==
  (call.op = "encode_prompt" /\ call.field > 1 /\ PromptCount(call.prompt) >= 1) =>
    LET n == PromptCount(call.prompt)
    IN  /\ Len(call.encoded) = 2 * n
        /\ call.negative_prompt = None =>
             \A i \in (n + 1)..Len(call.encoded) : call.encoded[i] = ""

\* C6: output_type "latent" or "pt" returns the raw tensor, never converted
\* to host memory nor made into images; otherwise rank 4 gives a result with
\* only `images`, rank 5 one with only `frames`, images are materialized only
\* for "pil" with `images`, and any other rank raises with no result.
C6_OutputSelection ==
  IsGenerate =>
    LET r == call.result
    IN  IF call.output_type \in {"latent", "pt"}
          THEN r.kind = "tensor" /\ ~r.host /\ ~r.pil /\ pc = "returned"
          ELSE /\ call.rank = 4 =>
                    r.kind = "NOVAPipelineOutput" /\ r.fields = {"images"}
               /\ call.rank = 5 =>
                    r.kind = "NOVAPipelineOutput" /\ r.fields = {"frames"}
               /\ r.pil <=> (call.output_type = "pil" /\ r.fields = {"images"})
               /\ call.rank \notin {4, 5} =>
                    r.kind = "KeyError" /\ r.fields = {} /\ pc = "raised"

\* A "pil" call on a rank-4 tensor: images, materialized.
C6_Witness ==
  /\ IsGenerate
  /\ call.output_type = "pil"
  /\ call.rank = 4
  /\ call.result.fields = {"images"}
  /\ call.result.pil

\* C7: register_module returns the object loaded from a non-empty identifier
\* of a class with pretrained loading and records its class name; it
\* default-constructs only for an empty identifier or a class without
\* pretrained loading; an instantiated object is returned as it is.
C7_RegisterModule ==
  call.op = "register_module" =>
    IF call.model_or_path.kind = "str"
      THEN IF call.model_or_path.val # "" /\ call.pretrainable
             THEN /\ ~call.raised
                  /\ call.model.origin = "pretrained"
                  /\ call.model.path = call.model_or_path.val
                  /\ pipeline.config[call.name] = call.model.cls
             ELSE ~call.raised /\ call.model.origin = "default"
      ELSE ~call.raised /\ call.model = call.model_or_path

\* C8: a generation call, returning or failing, changes the guidance_scale
\* field to its argument and no other field of the pipeline; encode_prompt,
\* prepare_latents and encode_image called directly change no field.
C8_FrameOfCalls ==
  [][(pc = "idle" /\ pc' # "idle") =>
       /\ call'.op = "generate" =>
            /\ pipeline'.guidance_scale = call'.guidance_scale
            /\ pipeline' = [pipeline EXCEPT !.guidance_scale = call'.guidance_scale]
       /\ call'.op \in {"encode_prompt", "prepare_latents", "encode_image"} =>
            pipeline' = pipeline]_vars

\* A generation call that failed and yet left its guidance_scale in the field.
C8_Witness ==
  /\ IsGenerate
  /\ pc = "raised"
  /\ call.entry_field # call.guidance_scale
  /\ pipeline.guidance_scale = call.guidance_scale

\* C9: whatever the calls made before it, a generation call with a None or
\* str negative prompt passes batch_size = N * K and a motion_flow list of
\* batch_size entries, each the motion_flow argument.
C9_BatchSizeOwnScale ==
  (IsGenerate /\ call.negative_prompt.kind # "list") =>
    /\ call.batch_size = PromptCount(call.prompt) * call.num_images_per_prompt
    /\ Len(call.motion_flow_list) = call.batch_size
    /\ \A i \in 1..Len(call.motion_flow_list) : call.motion_flow_list[i] = call.motion_flow

\* A call without guidance right after one with guidance (or after
\* construction), on two prompts with two images each.
C9_Witness ==
  /\ IsGenerate
  /\ call.entry_field > 1
  /\ call.guidance_scale <= 1
  /\ call.negative_prompt.kind # "list"
  /\ PromptCount(call.prompt) = 2
  /\ call.num_images_per_prompt = 2
  /\ call.batch_size = 4
  /\ Len(call.motion_flow_list) = 4

\* C10: calls that interleave can compute a wrong batch_size, and a call does
\* so only when its encode_prompt read a guidance_scale that another thread's
\* call wrote and that lies on the other side of 1 from its own: the number
\* of prompts it encoded then disagrees with its divisor.
C10_MismatchIsCrossRead ==
  \A t \in Threads :
    (frames[t].at = "encoded"
       /\ frames[t].batch_size #
            PromptCount(frames[t].prompt) * frames[t].num_images_per_prompt) =>
      /\ frames[t].read_from # t
      /\ (frames[t].field_read > 1) # (frames[t].guidance_scale > 1)
      /\ Len(frames[t].encoded) # frames[t].divisor * PromptCount(frames[t].prompt)

\* A call that read the other call's guidance_scale and got a wrong batch_size.
C10_Witness ==
  \E t \in Threads :
    /\ frames[t].at = "encoded"
    /\ frames[t].read_from # t
    /\ frames[t].read_from # 0
    /\ frames[t].field_read # frames[t].guidance_scale
    /\ PromptCount(frames[t].prompt) = 1
    /\ frames[t].batch_size #
         PromptCount(frames[t].prompt) * frames[t].num_images_per_prompt

====
